---- MODULE Spec2Model ----
(***************************************************************************)
(* Model of the mock call registry of package mockns1                      *)
(* (src/rest/dns_view.go, lines 417-528): AddTestCase, ClearTestCases and  *)
(* convertBody, with the library functions they call (strings, net/url,    *)
(* fmt, encoding/json, testify's assert.Equal) modelled by what they do on *)
(* the values the model draws.                                             *)
(*                                                                         *)
(* Strings and byte slices are sequences of one-character strings.         *)
(* A Go map is a set of <<key, value>> pairs with at most one pair per key.*)
(***************************************************************************)
EXTENDS Integers, Sequences, FiniteSets, TLC

VARIABLES
    tests,          \* s.tests: method -> uri -> list of *testCase
    timerRunning,   \* the background timer stopTimer/startTimer act on
    last,           \* Spec: the last call made and what it returned
    cleared,        \* Spec: whether ClearTestCases ran with no AddTestCase succeeding
                    \* since, and how many test cases it discarded
    registered,     \* the successful registrations since the last clear
    pc,             \* SpecSteps: where each goroutine is in its handler
    call,           \* SpecSteps: the arguments of each goroutine's call
    loc,            \* SpecSteps: the locals of each goroutine's call
    ret,            \* SpecSteps: what each goroutine's last call returned
    tev,            \* SpecSteps: the timer calls each goroutine's call made
    nin,            \* SpecNorm: the uri and params handed to AddTestCase
    nout            \* SpecNorm: the bucket key AddTestCase built from them

vars == <<tests, timerRunning, last, cleared, registered,
          pc, call, loc, ret, tev, nin, nout>>

(***************************************************************************)
(* Bounds                                                                  *)
(***************************************************************************)
MaxTests == 2       \* Spec: registered test cases
MaxStepTests == 2   \* SpecSteps: registered test cases
MaxUriLen == 5      \* SpecNorm: length of the uri argument

(***************************************************************************)
(* Strings                                                                 *)
(***************************************************************************)
V1Prefix == <<"/", "v", "1", "/">>

\* strings.HasPrefix
HasPrefix(s, p) == Len(s) >= Len(p) /\ SubSeq(s, 1, Len(p)) = p

\* strings.Contains(s, "//")
HasDoubleSlash(s) == \E i \in 1..(Len(s) - 1) : s[i] = "/" /\ s[i + 1] = "/"

\* strings.Replace(s, "//", "/", -1): one left-to-right pass over
\* non-overlapping occurrences.
RECURSIVE ReplaceDoubleSlash(_)
ReplaceDoubleSlash(s) ==
    IF Len(s) = 0 THEN <<>>
    ELSE IF Len(s) >= 2 /\ s[1] = "/" /\ s[2] = "/"
         THEN <<"/">> \o ReplaceDoubleSlash(SubSeq(s, 3, Len(s)))
         ELSE <<s[1]>> \o ReplaceDoubleSlash(Tail(s))

\* strings.Split(s, "/")
RECURSIVE SplitSlash(_, _)
SplitSlash(s, cur) ==
    IF Len(s) = 0 THEN <<cur>>
    ELSE IF s[1] = "/" THEN <<cur>> \o SplitSlash(Tail(s), <<>>)
         ELSE SplitSlash(Tail(s), Append(cur, s[1]))

\* strings.LastIndexByte(s, '/'), 1-based; 0 when there is none
LastSlash(s) ==
    LET idx == {i \in 1..Len(s) : s[i] = "/"}
    IN IF idx = {} THEN 0 ELSE CHOOSE i \in idx : \A j \in idx : j <= i

(***************************************************************************)
(* net/url                                                                 *)
(***************************************************************************)
HexDigits == {"0", "1", "2", "3", "4", "5", "6", "7", "8", "9",
              "a", "b", "c", "d", "e", "f", "A", "B", "C", "D", "E", "F"}

\* The byte an escape decodes to. "1" is the only hex digit of the modelled
\* alphabet, so %11 (the control byte 0x11) is the only escape that occurs.
DecodedByte(h1, h2) == IF h1 = "1" /\ h2 = "1" THEN "0x11" ELSE "0x??"

\* url.unescape's first pass: every % is followed by two hex digits.
ValidEscapes(s) ==
    \A i \in 1..Len(s) :
        s[i] = "%" => /\ i + 2 <= Len(s)
                      /\ s[i + 1] \in HexDigits
                      /\ s[i + 2] \in HexDigits

\* url.unescape(s, encodePath) of a string with valid escapes.
RECURSIVE Unescape(_)
Unescape(s) ==
    IF Len(s) = 0 THEN <<>>
    ELSE IF s[1] = "%"
         THEN <<DecodedByte(s[2], s[3])>> \o Unescape(SubSeq(s, 4, Len(s)))
         ELSE <<s[1]>> \o Unescape(Tail(s))

\* url.escape(s, encodePath): letters, digits, '.', '/' stay; a control byte
\* becomes %XX.
RECURSIVE Escape(_)
Escape(s) ==
    IF Len(s) = 0 THEN <<>>
    ELSE (IF s[1] = "0x11" THEN <<"%", "1", "1">> ELSE <<s[1]>>)
         \o Escape(Tail(s))

\* url.Parse of a string that starts with '/', has no '?' and no '#':
\* no scheme, no authority; setPath fails on an invalid escape.
ParseURL(raw) ==
    IF ~ValidEscapes(raw)
    THEN [err |-> TRUE, Path |-> <<>>, RawPath |-> <<>>]
    ELSE LET path == Unescape(raw)
         IN [err |-> FALSE, Path |-> path,
             RawPath |-> IF Escape(path) = raw THEN <<>> ELSE raw]

\* (*URL).EscapedPath
EscapedPath(u) ==
    IF u.RawPath # <<>> /\ ValidEscapes(u.RawPath) /\ Unescape(u.RawPath) = u.Path
    THEN u.RawPath
    ELSE Escape(u.Path)

\* The loop of url.resolvePath over the elements of the path: dst is the
\* string built so far (it starts as "/"), first is the loop's flag.
RECURSIVE ResolveElems(_, _, _)
ResolveElems(elems, dst, first) ==
    IF Len(elems) = 0 THEN dst
    ELSE LET elem == Head(elems)
             rest == Tail(elems)
         IN IF elem = <<".">>
            THEN ResolveElems(rest, dst, FALSE)
            ELSE IF elem = <<".", ".">>
            THEN LET str == Tail(dst)
                     index == LastSlash(str)
                 IN IF index = 0
                    THEN ResolveElems(rest, <<"/">>, TRUE)
                    ELSE ResolveElems(rest, <<"/">> \o SubSeq(str, 1, index - 1), first)
            ELSE ResolveElems(rest,
                              (IF first THEN dst ELSE Append(dst, "/")) \o elem,
                              FALSE)

\* url.resolvePath(base, ref)
ResolvePath(base, ref) ==
    LET full == IF ref = <<>> THEN base
                ELSE IF ref[1] # "/"
                     THEN SubSeq(base, 1, LastSlash(base)) \o ref
                     ELSE ref
    IN IF full = <<>> THEN <<>>
       ELSE LET elems == SplitSlash(full, <<>>)
                lastElem == elems[Len(elems)]
                d == ResolveElems(elems, <<"/">>, TRUE)
                r == IF lastElem = <<".">> \/ lastElem = <<".", ".">>
                     THEN Append(d, "/") ELSE d
            IN IF Len(r) > 1 /\ r[2] = "/" THEN Tail(r) ELSE r

\* baseUri.ResolveReference(rel).RequestURI() for baseUri = "/" and a rel
\* with a path and no scheme, host or query.
ResolveRequestURI(rel) ==
    LET res == ParseURL(ResolvePath(<<"/">>, EscapedPath(rel)))
        p == EscapedPath(res)
    IN IF p = <<>> THEN <<"/">> ELSE p

(***************************************************************************)
(* fmt.Sprintf("%s?%s=%s") and fmt.Sprintf("%s&%s=%s")                     *)
(***************************************************************************)
RECURSIVE AppendMoreParams(_, _)
AppendMoreParams(uri, ps) ==
    IF Len(ps) = 0 THEN uri
    ELSE AppendMoreParams(uri \o <<"&">> \o ps[1].Key \o <<"=">> \o ps[1].Value,
                          Tail(ps))

\* AddTestCase, lines 467-473
AppendParams(uri, params) ==
    IF Len(params) > 0
    THEN AppendMoreParams(uri \o <<"?">> \o params[1].Key \o <<"=">> \o params[1].Value,
                          Tail(params))
    ELSE uri

\* AddTestCase, lines 455-475: the bucket key built from uri and params,
\* or the parse error.
NormalizeURI(uri, params) ==
    LET u1 == IF ~HasPrefix(uri, V1Prefix) THEN V1Prefix \o uri ELSE uri
        rel == ParseURL(u1)
    IN IF rel.err
       THEN [err |-> TRUE, uri |-> <<>>]
       ELSE [err |-> FALSE,
             uri |-> ReplaceDoubleSlash(AppendParams(ResolveRequestURI(rel), params))]

(***************************************************************************)
(* Values: byte slices, http.Header, the interface{} bodies                *)
(***************************************************************************)
\* A []byte: nil, or a (possibly empty) sequence of bytes.
NilBytes == [isNil |-> TRUE, b |-> <<>>]
Bytes(s) == [isNil |-> FALSE, b |-> s]

\* An http.Header: nil, or a map given as a set of <<name, values>> pairs.
NilHeader == [isNil |-> TRUE, map |-> {}]
AcceptHeader == [isNil |-> FALSE, map |-> {<<"Accept", <<"json">>>>}]

\* The interface{} values a caller hands over as a body.
NilBody == [kind |-> "nil", isNil |-> TRUE, val |-> <<>>]          \* nil
NilSliceBody == [kind |-> "bytes", isNil |-> TRUE, val |-> <<>>]   \* []byte(nil)
SliceBody(s) == [kind |-> "bytes", isNil |-> FALSE, val |-> s]     \* []byte(s)
StringBody(s) == [kind |-> "string", isNil |-> FALSE, val |-> s]   \* a string
ObjectBody(id) == [kind |-> "object", isNil |-> FALSE, val |-> id] \* struct{ID string}
ChanBody == [kind |-> "chan", isNil |-> FALSE, val |-> <<>>]       \* a channel

\* json.Marshal
MarshalJSON(body) ==
    CASE body.kind = "nil" ->
            [data |-> Bytes(<<"n", "u", "l", "l">>), err |-> FALSE]
      [] body.kind = "object" ->
            [data |-> Bytes(<<"{", "\"", "i", "d", "\"", ":", "\"">>
                            \o body.val \o <<"\"", "}">>),
             err |-> FALSE]
      [] OTHER -> [data |-> NilBytes, err |-> TRUE]

\* convertBody, lines 518-528
convertBody(body) ==
    CASE body.kind = "bytes" ->
            [data |-> [isNil |-> body.isNil, b |-> body.val],
             json |-> FALSE, err |-> FALSE]
      [] body.kind = "string" ->
            [data |-> Bytes(body.val), json |-> FALSE, err |-> FALSE]
      [] OTHER ->
            LET m == MarshalJSON(body)
            IN [data |-> m.data, json |-> TRUE, err |-> m.err]

\* assert.Equal on two http.Header values: reflect.DeepEqual, for which a
\* nil map and an empty map differ.
HeadersEqual(a, b) == a.isNil = b.isNil /\ a.map = b.map

\* assert.Equal on two []byte values: ObjectsAreEqual, for which a nil slice
\* equals only a nil slice; otherwise bytes.Equal.
BodiesEqual(a, b) ==
    IF a.isNil \/ b.isNil THEN a.isNil /\ b.isNil ELSE a.b = b.b

(***************************************************************************)
(* Go maps as sets of <<key, value>> pairs                                 *)
(***************************************************************************)
EmptyMap == {}
Has(m, k) == \E p \in m : p[1] = k
Get(m, k) == (CHOOSE p \in m : p[1] = k)[2]
Put(m, k, v) == {p \in m : p[1] # k} \cup {<<k, v>>}
Keys(m) == {p[1] : p \in m}

\* The bucket s.tests[method][uri]; the zero value (no entries) when absent.
Bucket(t, method, uri) ==
    IF Has(t, method) /\ Has(Get(t, method), uri)
    THEN Get(Get(t, method), uri)
    ELSE <<>>

BucketIds(t) == {<<m, u>> : m \in Keys(t), u \in UNION {Keys(Get(t, mm)) : mm \in Keys(t)}}
Buckets(t) == {id \in BucketIds(t) : Has(Get(t, id[1]), id[2])}

RECURSIVE SumLen(_, _)
SumLen(t, ids) ==
    IF ids = {} THEN 0
    ELSE LET id == CHOOSE x \in ids : TRUE
         IN Len(Bucket(t, id[1], id[2])) + SumLen(t, ids \ {id})

\* The number of registered test cases.
NumTests(t) == SumLen(t, Buckets(t))

(***************************************************************************)
(* AddTestCase, ClearTestCases                                             *)
(***************************************************************************)
\* lines 477-481 and the converted bodies of lines 484-489
NewTestCase(returnStatus, requestHeaders, responseHeaders, req, resp) ==
    [status |-> returnStatus,
     request |-> [headers |-> requestHeaders, body |-> req.data, json |-> req.json],
     response |-> [headers |-> responseHeaders, body |-> resp.data]]

\* lines 499-506: some test of the bucket has equal headers and an equal body
IsRegistered(bucket, tc) ==
    \E i \in 1..Len(bucket) :
        /\ HeadersEqual(tc.request.headers, bucket[i].request.headers)
        /\ BodiesEqual(tc.request.body, bucket[i].request.body)

\* lines 491-496: the method's map and the bucket are made when missing
EnsureBucket(t, method, uri) ==
    LET t1 == IF ~Has(t, method) THEN Put(t, method, EmptyMap) ELSE t
    IN IF ~Has(Get(t1, method), uri)
       THEN Put(t1, method, Put(Get(t1, method), uri, <<>>))
       ELSE t1

\* As line 508 would be with the bucket assigned the new test case alone.
AppendTestOverwrites(t, method, uri, tc) ==
    Put(t, method, Put(Get(t, method), uri, <<tc>>))

\* line 508
AppendTest(t, method, uri, tc) ==
    Put(t, method, Put(Get(t, method), uri, Append(Get(Get(t, method), uri), tc)))

\* lines 498-510: the duplicate check, then the append
CheckAndAppend(t, method, uri, tc) ==
    IF IsRegistered(Get(Get(t, method), uri), tc)
    THEN [err |-> "duplicate", tests |-> t]
    ELSE [err |-> "nil", tests |-> AppendTest(t, method, uri, tc)]

\* As AddTestCase would be with lines 491-496 placed before the body
\* conversions of lines 484-489.
AddTestCaseBucketFirst(t, method, uri, returnStatus, requestHeaders, responseHeaders, requestBody, responseBody, params) ==
    LET n == NormalizeURI(uri, params)
        req == convertBody(requestBody)
        resp == convertBody(responseBody)
    IN IF n.err THEN [err |-> "uri", tests |-> t]
       ELSE IF req.err
            THEN [err |-> "request body", tests |-> EnsureBucket(t, method, n.uri)]
       ELSE IF resp.err
            THEN [err |-> "response body", tests |-> EnsureBucket(t, method, n.uri)]
       ELSE CheckAndAppend(EnsureBucket(t, method, n.uri), method, n.uri,
                           NewTestCase(returnStatus, requestHeaders,
                                       responseHeaders, req, resp))

\* AddTestCase, lines 455-510, on the registry t: the error returned ("nil"
\* for none) and the registry left behind.
AddTestCaseOp(t, method, uri, returnStatus, requestHeaders, responseHeaders, requestBody, responseBody, params) ==
    LET n == NormalizeURI(uri, params)
        req == convertBody(requestBody)
        resp == convertBody(responseBody)
    IN IF n.err THEN [err |-> "uri", tests |-> t]
       ELSE IF req.err THEN [err |-> "request body", tests |-> t]
       ELSE IF resp.err THEN [err |-> "response body", tests |-> t]
       ELSE CheckAndAppend(EnsureBucket(t, method, n.uri), method, n.uri,
                           NewTestCase(returnStatus, requestHeaders,
                                       responseHeaders, req, resp))

\* As ClearTestCases would be if it emptied one method's map only.
ClearOneMethod(t) == {p \in t : p[1] # "GET"}

\* ClearTestCases, lines 514-516
ClearTestCasesOp(t) == EmptyMap

\* stopTimer and startTimer, called at lines 452-453
StopTimer(running) == FALSE
StartTimer(running) == TRUE

(***************************************************************************)
(* Match: the lookup the fake listener makes for an incoming call          *)
(***************************************************************************)
NoMatch == [err |-> "no match", status |-> 0, headers |-> NilHeader, body |-> NilBytes]

MatchOp(t, method, uri, headers, body) ==
    LET bucket == Bucket(t, method, uri)
        req == convertBody(body)
        hits == {i \in 1..Len(bucket) :
                    /\ HeadersEqual(headers, bucket[i].request.headers)
                    /\ BodiesEqual(req.data, bucket[i].request.body)}
    IN IF req.err \/ hits = {} THEN NoMatch
       ELSE LET i == CHOOSE h \in hits : \A j \in hits : h <= j
            IN [err |-> "nil", status |-> bucket[i].status,
                headers |-> bucket[i].response.headers,
                body |-> bucket[i].response.body]

(***************************************************************************)
(* The values the calls are made with                                      *)
(***************************************************************************)
Param(k, v) == [Key |-> k, Value |-> v]

\* (method, uri, params): "x" and "/v1/x" name the same path, the params make
\* another bucket of it, "%" does not parse.
Targets == {<<"GET", <<"x">>, <<>>>>,
            <<"GET", V1Prefix \o <<"x">>, <<>>>>,
            <<"PUT", <<"x">>, <<Param(<<"k">>, <<"a">>)>>>>,
            <<"PUT", <<"%">>, <<>>>>}

\* (requestHeaders, requestBody)
Requests == {<<NilHeader, NilBody>>,
             <<NilHeader, NilSliceBody>>,
             <<NilHeader, SliceBody(<<>>)>>,
             <<AcceptHeader, NilBody>>,
             <<NilHeader, ChanBody>>}

\* (returnStatus, responseHeaders, responseBody)
Responses == {<<200, NilHeader, ObjectBody(<<"z", "1">>)>>,
              <<404, AcceptHeader, StringBody(<<"x">>)>>,
              <<200, NilHeader, ChanBody>>}

\* (method, uri) of incoming calls: the two bucket keys, and three never
\* registered.
Incoming == {<<"GET", V1Prefix \o <<"x">>>>,
             <<"GET", V1Prefix \o <<"x", "?", "k", "=", "a">>>>,
             <<"PUT", V1Prefix \o <<"x">>>>,
             <<"PUT", V1Prefix \o <<"x", "?", "k", "=", "a">>>>,
             <<"GET", <<"x">>>>}

(***************************************************************************)
(* Spec: calls made one after the other                                    *)
(***************************************************************************)
NoCall == [op |-> "none", err |-> "nil", status |-> 0,
           headers |-> NilHeader, body |-> NilBytes]
Called(name, e) == [op |-> name, err |-> e, status |-> 0,
                    headers |-> NilHeader, body |-> NilBytes]

\* What a successful registration promises an incoming call.
Registration(method, uri, status, reqHeaders, reqBody, respHeaders, respBytes) ==
    [method |-> method, uri |-> uri, status |-> status,
     requestHeaders |-> reqHeaders, requestBody |-> reqBody,
     responseHeaders |-> respHeaders, responseBody |-> respBytes]

StepsIdle ==
    /\ pc = "unused" /\ call = "unused" /\ loc = "unused"
    /\ ret = "unused" /\ tev = "unused"
NoKey == [done |-> FALSE, err |-> FALSE, uri |-> <<>>]
NormIdle == nin = "unused" /\ nout = NoKey

NotCleared == [since |-> FALSE, discarded |-> 0]

Init ==
    /\ tests = EmptyMap
    /\ timerRunning = TRUE
    /\ last = NoCall
    /\ cleared = NotCleared
    /\ registered = {}
    /\ StepsIdle
    /\ NormIdle

AddTestCase ==
    \E tg \in Targets, rq \in Requests, rs \in Responses :
        LET method == tg[1]
            uri == tg[2]
            params == tg[3]
            r == AddTestCaseOp(tests, method, uri, rs[1], rq[1], rs[2],
                               rq[2], rs[3], params)
        IN /\ r.err # "nil" \/ NumTests(tests) < MaxTests
           /\ tests' = r.tests
           /\ timerRunning' = StartTimer(StopTimer(timerRunning))
           /\ last' = Called("AddTestCase", r.err)
           /\ cleared' = IF r.err = "nil" THEN NotCleared ELSE cleared
           /\ registered' =
                IF r.err = "nil"
                THEN registered \cup
                     {Registration(method, NormalizeURI(uri, params).uri, rs[1],
                                   rq[1], rq[2], rs[2], convertBody(rs[3]).data)}
                ELSE registered
           /\ UNCHANGED <<pc, call, loc, ret, tev, nin, nout>>

ClearTestCases ==
    /\ tests' = ClearTestCasesOp(tests)
    /\ last' = Called("ClearTestCases", "nil")
    /\ cleared' = [since |-> TRUE, discarded |-> NumTests(tests)]
    /\ registered' = {}
    /\ UNCHANGED <<timerRunning, pc, call, loc, ret, tev, nin, nout>>

Match ==
    \E in \in Incoming, rq \in Requests :
        /\ last' = [op |-> "Match"] @@ MatchOp(tests, in[1], in[2], rq[1], rq[2])
        /\ UNCHANGED <<tests, timerRunning, cleared, registered,
                       pc, call, loc, ret, tev, nin, nout>>

Next == AddTestCase \/ ClearTestCases \/ Match

Spec == Init /\ [][Next]_vars

(***************************************************************************)
(* SpecSteps, SpecOne: the handlers statement by statement, run by         *)
(* goroutines that share s.tests and the timer with no lock between them   *)
(***************************************************************************)
Procs == {"g1", "g2"}

Args(method, uri, status, reqHeaders, respHeaders, reqBody, respBody, params) ==
    [method |-> method, uri |-> uri, returnStatus |-> status,
     requestHeaders |-> reqHeaders, responseHeaders |-> respHeaders,
     requestBody |-> reqBody, responseBody |-> respBody, params |-> params]

\* A registration, a second one of the same request, one of another request,
\* a uri that does not parse, a request body and a response body that do not
\* convert.
StepCalls ==
    {Args("GET", <<"x">>, 200, NilHeader, NilHeader, NilBody, StringBody(<<"x">>), <<>>),
     Args("GET", V1Prefix \o <<"x">>, 404, NilHeader, AcceptHeader, NilBody,
          StringBody(<<"x">>), <<>>),
     Args("GET", <<"x">>, 200, AcceptHeader, NilHeader, NilBody, NilBody, <<>>),
     Args("PUT", <<"%">>, 200, NilHeader, NilHeader, NilBody, NilBody, <<>>),
     Args("GET", <<"x">>, 200, NilHeader, NilHeader, ChanBody, NilBody, <<>>),
     Args("GET", <<"x">>, 200, NilHeader, NilHeader, NilBody, ChanBody, <<>>)}

NoArgs == Args("", <<>>, 0, NilHeader, NilHeader, NilBody, NilBody, <<>>)
NoTest == NewTestCase(0, NilHeader, NilHeader,
                      [data |-> NilBytes, json |-> FALSE],
                      [data |-> NilBytes, json |-> FALSE])
NoLoc == [uri |-> <<>>, tc |-> NoTest, err |-> "nil", bucket |-> <<>>]
NoRet == [op |-> "none", err |-> "nil", timer |-> TRUE, tev |-> <<>>]

InitSteps(P) ==
    /\ tests = EmptyMap
    /\ timerRunning = TRUE
    /\ last = NoCall
    /\ cleared = NotCleared
    /\ registered = {}
    /\ pc = [p \in P |-> "idle"]
    /\ call = [p \in P |-> NoArgs]
    /\ loc = [p \in P |-> NoLoc]
    /\ ret = [p \in P |-> NoRet]
    /\ tev = [p \in P |-> <<>>]
    /\ NormIdle

\* A panic in one goroutine ends the program.
Alive == \A q \in DOMAIN pc : pc[q] # "crashed"
InCall == {q \in DOMAIN pc : pc[q] \notin {"idle", "crashed"}}

SpecOnlyVars == <<last, cleared, nin, nout>>

\* A goroutine calls AddTestCase.
AddCall(p) ==
    /\ Alive /\ pc[p] = "idle"
    /\ NumTests(tests) + Cardinality(InCall) < MaxStepTests
    /\ \E c \in StepCalls : call' = [call EXCEPT ![p] = c]
    /\ pc' = [pc EXCEPT ![p] = "stop"]
    /\ ret' = [ret EXCEPT ![p] = NoRet]
    /\ UNCHANGED <<tests, timerRunning, registered, loc, tev, SpecOnlyVars>>

\* line 452
AddStopTimer(p) ==
    /\ Alive /\ pc[p] = "stop"
    /\ timerRunning' = StopTimer(timerRunning)
    /\ tev' = [tev EXCEPT ![p] = Append(@, "stop")]
    /\ pc' = [pc EXCEPT ![p] = "prepare"]
    /\ UNCHANGED <<tests, registered, call, loc, ret, SpecOnlyVars>>

\* lines 455-489: the uri and the test case, or the error to return
AddPrepare(p) ==
    /\ Alive /\ pc[p] = "prepare"
    /\ LET c == call[p]
           n == NormalizeURI(c.uri, c.params)
           req == convertBody(c.requestBody)
           resp == convertBody(c.responseBody)
           e == IF n.err THEN "uri"
                ELSE IF req.err THEN "request body"
                ELSE IF resp.err THEN "response body"
                ELSE "nil"
       IN IF e # "nil"
          THEN /\ loc' = [loc EXCEPT ![p].err = e]
               /\ pc' = [pc EXCEPT ![p] = "return"]
          ELSE /\ loc' = [loc EXCEPT ![p].uri = n.uri,
                                     ![p].tc = NewTestCase(c.returnStatus,
                                                           c.requestHeaders,
                                                           c.responseHeaders,
                                                           req, resp)]
               /\ pc' = [pc EXCEPT ![p] = "checkMethod"]
    /\ UNCHANGED <<tests, timerRunning, registered, call, ret, tev, SpecOnlyVars>>

\* line 491
AddCheckMethod(p) ==
    /\ Alive /\ pc[p] = "checkMethod"
    /\ pc' = [pc EXCEPT ![p] = IF ~Has(tests, call[p].method)
                               THEN "makeMethod" ELSE "checkUri"]
    /\ UNCHANGED <<tests, timerRunning, registered, call, loc, ret, tev, SpecOnlyVars>>

\* line 492
AddMakeMethod(p) ==
    /\ Alive /\ pc[p] = "makeMethod"
    /\ tests' = Put(tests, call[p].method, EmptyMap)
    /\ pc' = [pc EXCEPT ![p] = "checkUri"]
    /\ UNCHANGED <<timerRunning, registered, call, loc, ret, tev, SpecOnlyVars>>

\* line 494: s.tests[method] is the nil map when the method is missing, and
\* a nil map has no key
AddCheckUri(p) ==
    /\ Alive /\ pc[p] = "checkUri"
    /\ pc' = [pc EXCEPT ![p] =
                IF Has(tests, call[p].method) /\ Has(Get(tests, call[p].method), loc[p].uri)
                THEN "scan" ELSE "makeUri"]
    /\ UNCHANGED <<tests, timerRunning, registered, call, loc, ret, tev, SpecOnlyVars>>

\* line 495: an assignment to an entry of the nil map panics
AddMakeUri(p) ==
    /\ Alive /\ pc[p] = "makeUri"
    /\ IF Has(tests, call[p].method)
       THEN /\ tests' = Put(tests, call[p].method,
                            Put(Get(tests, call[p].method), loc[p].uri, <<>>))
            /\ pc' = [pc EXCEPT ![p] = "scan"]
            /\ loc' = loc
       ELSE /\ tests' = tests
            /\ pc' = [pc EXCEPT ![p] = "return"]
            /\ loc' = [loc EXCEPT ![p].err = "panic"]
    /\ UNCHANGED <<timerRunning, registered, call, ret, tev, SpecOnlyVars>>

\* lines 498-506
AddScan(p) ==
    /\ Alive /\ pc[p] = "scan"
    /\ IF IsRegistered(Bucket(tests, call[p].method, loc[p].uri), loc[p].tc)
       THEN /\ loc' = [loc EXCEPT ![p].err = "duplicate"]
            /\ pc' = [pc EXCEPT ![p] = "return"]
       ELSE /\ loc' = loc
            /\ pc' = [pc EXCEPT ![p] = "appendRead"]
    /\ UNCHANGED <<tests, timerRunning, registered, call, ret, tev, SpecOnlyVars>>

\* line 508, right-hand side: the bucket is read (the model stops at buckets
\* of MaxStepTests test cases)
AddAppendRead(p) ==
    /\ Alive /\ pc[p] = "appendRead"
    /\ Len(Bucket(tests, call[p].method, loc[p].uri)) < MaxStepTests
    /\ loc' = [loc EXCEPT ![p].bucket = Bucket(tests, call[p].method, loc[p].uri)]
    /\ pc' = [pc EXCEPT ![p] = "appendWrite"]
    /\ UNCHANGED <<tests, timerRunning, registered, call, ret, tev, SpecOnlyVars>>

\* line 508, the assignment: the bucket read, with the test case appended, is
\* stored
AddAppendWrite(p) ==
    /\ Alive /\ pc[p] = "appendWrite"
    /\ IF Has(tests, call[p].method)
       THEN /\ tests' = Put(tests, call[p].method,
                            Put(Get(tests, call[p].method), loc[p].uri,
                                Append(loc[p].bucket, loc[p].tc)))
            /\ registered' = registered \cup
                 {Registration(call[p].method, loc[p].uri, loc[p].tc.status,
                               call[p].requestHeaders, call[p].requestBody,
                               loc[p].tc.response.headers, loc[p].tc.response.body)}
            /\ loc' = loc
       ELSE /\ tests' = tests
            /\ registered' = registered
            /\ loc' = [loc EXCEPT ![p].err = "panic"]
    /\ pc' = [pc EXCEPT ![p] = "return"]
    /\ UNCHANGED <<timerRunning, call, ret, tev, SpecOnlyVars>>

\* As the return would be with startTimer called at the end of the function
\* instead of deferred.
AddReturnNotDeferred(p) ==
    /\ Alive /\ pc[p] = "return"
    /\ LET started == loc[p].err = "nil"
           running == IF started THEN StartTimer(timerRunning) ELSE timerRunning
           events == IF started THEN Append(tev[p], "start") ELSE tev[p]
       IN /\ timerRunning' = running
          /\ ret' = [ret EXCEPT ![p] = [op |-> "AddTestCase", err |-> loc[p].err,
                                        timer |-> running, tev |-> events]]
    /\ pc' = [pc EXCEPT ![p] = IF loc[p].err = "panic" THEN "crashed" ELSE "idle"]
    /\ call' = [call EXCEPT ![p] = NoArgs]
    /\ loc' = [loc EXCEPT ![p] = NoLoc]
    /\ tev' = [tev EXCEPT ![p] = <<>>]
    /\ UNCHANGED <<tests, registered, SpecOnlyVars>>

\* Every return (lines 462, 485, 488, 504, 510) and a panic: the deferred
\* startTimer of line 453 runs, and the call ends.
AddReturn(p) ==
    /\ Alive /\ pc[p] = "return"
    /\ timerRunning' = StartTimer(timerRunning)
    /\ ret' = [ret EXCEPT ![p] = [op |-> "AddTestCase", err |-> loc[p].err,
                                  timer |-> StartTimer(timerRunning),
                                  tev |-> Append(tev[p], "start")]]
    /\ pc' = [pc EXCEPT ![p] = IF loc[p].err = "panic" THEN "crashed" ELSE "idle"]
    /\ call' = [call EXCEPT ![p] = NoArgs]
    /\ loc' = [loc EXCEPT ![p] = NoLoc]
    /\ tev' = [tev EXCEPT ![p] = <<>>]
    /\ UNCHANGED <<tests, registered, SpecOnlyVars>>

\* ClearTestCases, lines 514-516: one assignment
ClearStep(p) ==
    /\ Alive /\ pc[p] = "idle"
    /\ tests' = ClearTestCasesOp(tests)
    /\ registered' = {}
    /\ ret' = [ret EXCEPT ![p] = [op |-> "ClearTestCases", err |-> "nil",
                                  timer |-> timerRunning, tev |-> <<>>]]
    /\ UNCHANGED <<timerRunning, pc, call, loc, tev, SpecOnlyVars>>

\* The listener's lookup for an incoming GET /v1/x with no headers and a nil
\* body
MatchStep(p) ==
    /\ Alive /\ pc[p] = "idle"
    /\ ret' = [ret EXCEPT ![p] =
                 [op |-> "Match",
                  err |-> MatchOp(tests, "GET", V1Prefix \o <<"x">>,
                                  NilHeader, NilBody).err,
                  timer |-> timerRunning, tev |-> <<>>]]
    /\ UNCHANGED <<tests, timerRunning, registered, pc, call, loc, tev, SpecOnlyVars>>

NextSteps ==
    \/ \E p \in DOMAIN pc : AddCall(p)
    \/ \E p \in DOMAIN pc : AddStopTimer(p)
    \/ \E p \in DOMAIN pc : AddPrepare(p)
    \/ \E p \in DOMAIN pc : AddCheckMethod(p)
    \/ \E p \in DOMAIN pc : AddMakeMethod(p)
    \/ \E p \in DOMAIN pc : AddCheckUri(p)
    \/ \E p \in DOMAIN pc : AddMakeUri(p)
    \/ \E p \in DOMAIN pc : AddScan(p)
    \/ \E p \in DOMAIN pc : AddAppendRead(p)
    \/ \E p \in DOMAIN pc : AddAppendWrite(p)
    \/ \E p \in DOMAIN pc : AddReturn(p)
    \/ \E p \in DOMAIN pc : ClearStep(p)
    \/ \E p \in DOMAIN pc : MatchStep(p)

\* Two goroutines.
SpecSteps == InitSteps(Procs) /\ [][NextSteps]_vars

\* One goroutine.
SpecOne == InitSteps({"g1"}) /\ [][NextSteps]_vars

(***************************************************************************)
(* Properties of SpecSteps and SpecOne                                     *)
(***************************************************************************)
\* C7: every AddTestCase call pauses the timer before it does anything else
\* (from its first statement on, and until it returns, its timer calls are
\* the one stopTimer) and resumes it exactly once before returning, on every
\* exit path; no call returns with the timer paused.
C7_TimerPausedThenResumed ==
    \A p \in DOMAIN pc :
        /\ pc[p] \notin {"idle", "stop", "crashed"} => tev[p] = <<"stop">>
        /\ ret[p].op = "AddTestCase" =>
              /\ ret[p].timer
              /\ ret[p].tev = <<"stop", "start">>

\* One goroutine's call has returned the duplicate error and the other's the
\* uri error.
C7_Witness ==
    \E p, q \in DOMAIN pc :
        /\ ret[p].op = "AddTestCase" /\ ret[p].err = "duplicate"
        /\ ret[q].op = "AddTestCase" /\ ret[q].err = "uri"

\* C8: with AddTestCase running beside Match, ClearTestCases or another
\* AddTestCase, no bucket comes to hold two test cases that assert.Equal finds
\* equal in headers and body, and no test case stored since the last clear is
\* missing from its bucket.
C8_NoRaceDamage ==
    /\ \A id \in Buckets(tests) :
          LET bucket == Bucket(tests, id[1], id[2])
          IN \A i, j \in 1..Len(bucket) :
                i # j => ~(/\ HeadersEqual(bucket[i].request.headers,
                                           bucket[j].request.headers)
                           /\ BodiesEqual(bucket[i].request.body,
                                          bucket[j].request.body))
    /\ \A r \in registered :
          LET bucket == Bucket(tests, r.method, r.uri)
          IN \E i \in 1..Len(bucket) :
                /\ bucket[i].status = r.status
                /\ bucket[i].request.headers = r.requestHeaders
                /\ bucket[i].request.body = convertBody(r.requestBody).data
                /\ bucket[i].response.headers = r.responseHeaders
                /\ bucket[i].response.body = r.responseBody

\* C10: the registry never changes in a state where the timer is running:
\* AddTestCase and ClearTestCases alike mutate it only while the timer is
\* paused.
C10_MutatesOnlyWhilePaused == [][tests' # tests => ~timerRunning]_vars

(***************************************************************************)
(* Properties of Spec                                                      *)
(***************************************************************************)
\* Equality of what two values hold: the same header names with the same
\* values, the same bytes.
SameHeaders(a, b) == a.map = b.map
SameBytes(a, b) == a.b = b.b

AllCalls == Targets \X Requests \X Responses

\* AddTestCase on the current registry with the arguments c of AllCalls.
ResultOf(c) ==
    AddTestCaseOp(tests, c[1][1], c[1][2], c[3][1], c[2][1], c[3][2],
                  c[2][2], c[3][3], c[1][3])

\* C1: after any sequence of AddTestCase and ClearTestCases calls, no bucket
\* holds two distinct entries whose request headers are equal and whose
\* request body bytes are equal.
C1_NoEqualEntries ==
    \A id \in Buckets(tests) :
        LET bucket == Bucket(tests, id[1], id[2])
        IN \A i, j \in 1..Len(bucket) :
            i # j => ~(/\ SameHeaders(bucket[i].request.headers,
                                      bucket[j].request.headers)
                       /\ SameBytes(bucket[i].request.body,
                                    bucket[j].request.body))

\* C2: an AddTestCase call whose method, normalized uri, request headers and
\* converted request body bytes equal those of an entry already in the
\* registry returns the duplicate error and inserts nothing, whatever its
\* return status, response headers and (convertible) response body are, and
\* the entry registered first keeps its response.
C2_DuplicateRejected ==
    \A c \in AllCalls :
        LET n == NormalizeURI(c[1][2], c[1][3])
            req == convertBody(c[2][2])
            resp == convertBody(c[3][3])
            bucket == Bucket(tests, c[1][1], n.uri)
        IN (/\ ~n.err /\ ~req.err /\ ~resp.err
            /\ \E i \in 1..Len(bucket) :
                  /\ SameHeaders(c[2][1], bucket[i].request.headers)
                  /\ SameBytes(req.data, bucket[i].request.body))
           => /\ ResultOf(c).err = "duplicate"
              /\ ResultOf(c).tests = tests

C4_ClearEmpties ==
    cleared.since =>
        /\ tests = EmptyMap
        /\ last.op = "Match" => last.err = "no match"
        /\ \A in \in Incoming, rq \in Requests :
              MatchOp(tests, in[1], in[2], rq[1], rq[2]) = NoMatch
        /\ \A c \in AllCalls : ResultOf(c).err # "duplicate"

\* A Match has failed after a ClearTestCases that discarded two test cases.
C4_Witness ==
    /\ cleared.since /\ cleared.discarded >= 2
    /\ last.op = "Match" /\ last.err = "no match"

\* C9: an AddTestCase call that returns an error (unparsable uri,
\* unconvertible request or response body, duplicate) leaves the registry as
\* it was: no method map or bucket made, no entry added, removed or altered.
C9_ErrorLeavesRegistry ==
    \A c \in AllCalls : ResultOf(c).err # "nil" => ResultOf(c).tests = tests

\* An AddTestCase call has just returned the duplicate error.
C9_Witness ==
    /\ last.op = "AddTestCase" /\ last.err = "duplicate"
    /\ NumTests(tests) >= 1

(***************************************************************************)
(* SpecNorm: the bucket key AddTestCase builds, for every uri of up to     *)
(* MaxUriLen characters                                                    *)
(***************************************************************************)
UriAlphabet == {"/", "v", "1", "x", ".", "%"}
UriInputs == UNION {[1..n -> UriAlphabet] : n \in 0..MaxUriLen}

NormParamLists ==
    {<<>>,
     <<Param(<<"k">>, <<"a">>)>>,
     <<Param(<<"k">>, <<"a">>), Param(<<"j">>, <<"b">>)>>,
     <<Param(<<"j">>, <<"b">>), Param(<<"k">>, <<"a">>)>>,
     <<Param(<<"k">>, <<"/", "/", "a">>)>>}

InitNorm ==
    /\ tests = EmptyMap
    /\ timerRunning = TRUE
    /\ last = NoCall
    /\ cleared = NotCleared
    /\ registered = {}
    /\ StepsIdle
    /\ nin \in [uri : UriInputs, params : NormParamLists]
    /\ nout = NoKey

BuildKey ==
    /\ ~nout.done
    /\ nout' = [done |-> TRUE] @@ NormalizeURI(nin.uri, nin.params)
    /\ UNCHANGED <<tests, timerRunning, last, cleared, registered,
                   pc, call, loc, ret, tev, nin>>

NextNorm == BuildKey

SpecNorm == InitNorm /\ [][NextNorm]_vars

(***************************************************************************)
(* Properties of SpecNorm                                                  *)
(***************************************************************************)
\* key=value pairs joined by '&', in the order given
RECURSIVE JoinParams(_)
JoinParams(ps) ==
    IF Len(ps) = 0 THEN <<>>
    ELSE ps[1].Key \o <<"=">> \o ps[1].Value
         \o (IF Len(ps) > 1 THEN <<"&">> \o JoinParams(Tail(ps)) ELSE <<>>)

\* C5: for every uri (here: registered without params) the bucket key starts
\* with /v1/, holds no doubled path separator, and normalizing the key again
\* gives the same key.
C5_NormalizationIdempotent ==
    (nout.done /\ ~nout.err /\ nin.params = <<>>) =>
        /\ HasPrefix(nout.uri, V1Prefix)
        /\ ~HasDoubleSlash(nout.uri)
        /\ NormalizeURI(nout.uri, <<>>) = [err |-> FALSE, uri |-> nout.uri]

\* C6: for every non-empty params list the bucket key is the normalized path,
\* then '?', then the pairs key=value joined by '&' in the order given, every
\* key and value unaltered.
C6_KeyIsPathThenParams ==
    (nout.done /\ ~nout.err /\ Len(nin.params) > 0) =>
        nout.uri = NormalizeURI(nin.uri, <<>>).uri \o <<"?">> \o JoinParams(nin.params)

====
